---- MODULE Spec2Model ----
(***************************************************************************)
(* Model of go-influxlogger (src/logger.go): the LogWriter that encodes    *)
(* log calls into points and writes them to the sink, directly or through  *)
(* a ring buffer drained under flushMutex, and the Logger facade on top.   *)
(***************************************************************************)
EXTENDS Integers, Sequences, FiniteSets, TLC

\* ------------------------------------------------------------------ bounds
\* goroutines calling into one writer
NumProcs == 2
\* largest bufferLimit given to the constructor
MaxCap == 3
\* number of Write calls issued in one run
MaxWrites == 4
\* number of Log calls issued in one run
MaxLogs == 2
\* number of Logger values derived in one run
MaxLoggers == 3
\* number of message arguments of one call
MaxArgs == 3

Procs == 1..NumProcs

\* ------------------------------------------------------- levels and tables
Levels == {"trace", "debug", "info", "warn", "error", "fatal", "panic"}

\* logging.Level is an ordinal; higher rank = more severe
LevelRank == [trace |-> 0, debug |-> 1, info |-> 2, warn |-> 3, error |-> 4, fatal |-> 5, panic |-> 6]

severityMapTable == [trace |-> "debug", debug |-> "debug", info |-> "info", warn |-> "warn", error |-> "err", fatal |-> "alert", panic |-> "emerg"]

severityCodeTable_FatalAsCrit == [trace |-> 7, debug |-> 7, info |-> 6, warn |-> 4, error |-> 3, fatal |-> 2, panic |-> 0]

severityCodeTable == [trace |-> 7, debug |-> 7, info |-> 6, warn |-> 4, error |-> 3, fatal |-> 1, panic |-> 0]

\* ------------------------------------------------------------- Go values
\* a Go map is nil or allocated; m is the content (a nil map reads as empty)
NilMap == [nil |-> TRUE, m |-> <<>>]

MkMap(f) == [nil |-> FALSE, m |-> f]

\* the empty slot of a []*influxdb3.Point
NilPoint == [id |-> 0]

\* error values
NoErr == "nil"

SinkWriteError == "sink write error"

ErrFull == "ringqueue: full"

ErrEmpty == "ringqueue: empty"

\* one message argument: its default string representation and whether
\* it is a Go string (fmt.Sprint spaces operands only between non-strings)
Str(s) == [str |-> TRUE, s |-> s]

Num(s) == [str |-> FALSE, s |-> s]

\* fmt.Sprint: operands in order, a space between two operands when
\* neither is a string
RECURSIVE SprintFrom_AlwaysSpace(_, _)
SprintFrom_AlwaysSpace(args, k) ==
    IF k > Len(args) THEN ""
    ELSE LET sep == IF k > 1 THEN " " ELSE ""
         IN sep \o args[k].s \o SprintFrom_AlwaysSpace(args, k + 1)

RECURSIVE SprintFrom(_, _)
SprintFrom(args, k) ==
    IF k > Len(args) THEN ""
    ELSE LET sep == IF k > 1 /\ ~args[k - 1].str /\ ~args[k].str THEN " " ELSE ""
         IN sep \o args[k].s \o SprintFrom(args, k + 1)

Sprint(args) == SprintFrom(args, 1)

\* time.Time as seconds plus a sub-second part; UTC().Format(time.RFC3339)
\* keeps the second and drops the sub-second part
FormatRFC3339(t) == <<"RFC3339", t.sec>>

\* --------------------------------------------------------------- ring queue
\* ringqueue.RingQueue with WhenFullError / WhenEmptyError
RingLen(q) == Len(q)

RingPush(q, cap, x) ==
    IF Len(q) >= cap THEN [q |-> q, err |-> ErrFull]
    ELSE [q |-> Append(q, x), err |-> NoErr]

RingPop(q) ==
    IF Len(q) = 0 THEN [q |-> q, val |-> NilPoint, err |-> ErrEmpty]
    ELSE [q |-> Tail(q), val |-> Head(q), err |-> NoErr]

\* -------------------------------------------------------------------- state
VARIABLES
    severityMap,    \* package variable, level -> keyword
    severityCode,   \* package variable, level -> code
    flushInterval,  \* LogWriter.flushInterval
    bufferLimit,    \* capacity of LogWriter.buffer; 0: buffer is nil
    buffer,         \* pending points of LogWriter.buffer, oldest first
    flushMutex,     \* LogWriter.flushMutex: 0 unlocked, else the holder
    tags,           \* LogWriter.tags
    writerFields,   \* LogWriter.fields
    sinkLog,        \* calls of client.WritePoints, in order of entry
    inSink,         \* goroutines inside client.WritePoints
    loggers,        \* the Logger values created so far
    lastOp,         \* the last WithFields/WithAdditionalFields/Logger call
    pc,             \* position of each goroutine
    frame,          \* locals of the call each goroutine is in
    nextId,         \* identity of the next point allocated
    exitCode,       \* -1 while the process runs, else os.Exit's code
    concurrent,     \* history: two calls were in flight together
    lockOrder,      \* history: the points of the calls that took flushMutex, in that order
    ctor            \* the call of NewBufferedLogger: position, arguments, locals

vars == <<severityMap, severityCode, flushInterval, bufferLimit, buffer, flushMutex, tags, writerFields, sinkLog, inSink, loggers, lastOp, pc, frame, nextId, exitCode, concurrent, lockOrder, ctor>>

tables == <<severityMap, severityCode>>

config == <<flushInterval, bufferLimit, tags, writerFields, ctor>>

facade == <<loggers, lastOp>>

\* ------------------------------------------------------------------ encoder
\* LogWriter.measurement is declared and never assigned
measurement == ""

procId == "pid"

appName == "app"

host == "h"

\* the default field set NewLogWriter stores in LogWriter.fields
DefaultFields == [facility_code |-> 1, message |-> "", procid |-> procId, severity_code |-> 7, timestamp |-> 0, version |-> 1]

\* m with every entry of n written over it
Overlay(m, n) == [k \in (DOMAIN m) \cup (DOMAIN n) |-> IF k \in DOMAIN n THEN n[k] ELSE m[k]]

\* the loop m["fields."+key] = arg of getFields
PrefixedFields_NoPrefix(fields) == fields.m

PrefixedFields(fields) ==
    [k \in {"fields." \o key : key \in DOMAIN fields.m} |->
        fields.m[CHOOSE key \in DOMAIN fields.m : "fields." \o key = k]]

getFields(level, args, fields, timestamp) ==
    LET msg == Sprint(args)
        m0 == IF fields.nil THEN <<>> ELSE PrefixedFields(fields)
        m1 == Overlay(m0, writerFields.m)
        m2 == Overlay(m1, [severity_code |-> severityCode[level]])
        m3 == Overlay(m2, [timestamp |-> FormatRFC3339(timestamp)])
    IN Overlay(m3, [message |-> msg])

\* w.tags[level]: indexing a nil map, or a missing key, yields the nil map
TagsOf(level) == IF tags.nil \/ level \notin DOMAIN tags.m THEN NilMap ELSE MkMap(tags.m[level])

NewPoint(id, level, args, fields, timestamp) ==
    [id |-> id, measurement |-> measurement, tags |-> TagsOf(level),
     fields |-> getFields(level, args, fields, timestamp), ts |-> timestamp]

\* the constructor's call record before NewBufferedLogger is called
NoCtor ==
    [pc |-> "none", connection |-> "", appName |-> "", host |-> "", flushInterval |-> 0,
     bufferLimit |-> 0, err |-> NoErr, writer |-> FALSE, ring |-> FALSE, result |-> "none"]

\* ------------------------------------------------------------------- frames
IdleFrame ==
    [level |-> "info", args |-> <<>>, fields |-> NilMap, point |-> NilPoint,
     points |-> <<>>, i |-> 0, err |-> NoErr, wasFull |-> FALSE, lenAtLock |-> 0,
     sinkCalls |-> 0, sinkIdx |-> 0, viaLog |-> FALSE, logger |-> 0,
     effect |-> "none", panicValue |-> ""]

\* a call of p is in flight (entered and not yet returned or unwound)
InFlight(p) == pc[p] \notin {"idle", "writeRet", "logRet", "panicked"}

\* p can start a call: it has made none yet, or its last call has returned
\* (a Write called by Log returns into Log, not to the caller)
CanCall(p) ==
    \/ pc[p] = "idle"
    \/ pc[p] = "writeRet" /\ ~frame[p].viaLog
    \/ pc[p] = "logRet"

Running == exitCode = -1

\* w.buffer.Cap(): the capacity NewLogWriter gives ringqueue.NewUnsafe
BufferCap_OffByOne == bufferLimit + 1

BufferCap == bufferLimit

\* w.flushInterval == 0 || w.buffer == nil
Unbuffered_BothNeeded == flushInterval = 0 /\ bufferLimit = 0

Unbuffered == flushInterval = 0 \/ bufferLimit = 0

\* ------------------------------------------------------------- LogWriter.Write
\* entry of Write: encode the point and pick the path
WriteEntry(p, level, args, fields, timestamp, viaLog, lg) ==
    /\ Running
    /\ CanCall(p)
    /\ nextId <= MaxWrites
    /\ LET point == NewPoint(nextId, level, args, fields, timestamp)
       IN frame' = [frame EXCEPT ![p] =
              [IdleFrame EXCEPT !.level = level, !.args = args, !.fields = fields,
                                !.point = point, !.viaLog = viaLog, !.logger = lg,
                                !.points = IF Unbuffered THEN <<point>> ELSE <<>>]]
    /\ pc' = [pc EXCEPT ![p] = IF Unbuffered THEN "writePoints" ELSE "lock"]
    /\ nextId' = nextId + 1
    /\ concurrent' = (concurrent \/ \E q \in Procs \ {p} : InFlight(q))
    /\ UNCHANGED <<tables, config, buffer, flushMutex, sinkLog, inSink, facade, exitCode, lockOrder>>

Write(p, level, args, fields, timestamp) ==
    WriteEntry(p, level, args, fields, timestamp, FALSE, 0)

\* writeBuffered: w.flushMutex.Lock() blocks while the mutex is held
LockGuard_NoExclusion(p) == TRUE

LockGuard(p) == flushMutex = 0

writeBuffered_Lock(p) ==
    /\ Running
    /\ pc[p] = "lock"
    /\ LockGuard(p)
    /\ flushMutex' = p
    /\ pc' = [pc EXCEPT ![p] = "check"]
    /\ frame' = [frame EXCEPT ![p].lenAtLock = RingLen(buffer)]
    /\ lockOrder' = Append(lockOrder, frame[p].point.id)
    /\ UNCHANGED <<tables, config, buffer, sinkLog, inSink, facade, nextId, exitCode, concurrent>>

\* the test w.buffer.Len() == w.buffer.Cap()
IsFull_WhenNonEmpty(q, cap) == RingLen(q) > 0

IsFull(q, cap) == RingLen(q) = cap

\* writeBuffered: the capacity test; when full, flushBuffer allocates
\* points := make([]*Point, w.buffer.Len()) and starts its loop at i = 0
writeBuffered_Check(p) ==
    /\ Running
    /\ pc[p] = "check"
    /\ LET full == IsFull(buffer, BufferCap)
       IN /\ frame' = [frame EXCEPT ![p].wasFull = full,
                                    ![p].points = IF full THEN [k \in 1..RingLen(buffer) |-> NilPoint] ELSE <<>>,
                                    ![p].i = 0]
          /\ pc' = [pc EXCEPT ![p] = IF full THEN "drain" ELSE "push"]
    /\ UNCHANGED <<tables, config, buffer, flushMutex, sinkLog, inSink, facade, nextId, exitCode, concurrent, lockOrder>>

\* the loop condition of flushBuffer: i < w.buffer.Len(), read anew each round
DrainMore_Never(i, q) == FALSE

DrainMore(i, q) == i < RingLen(q)

\* flushBuffer: one round of the loop, or its exit towards writePoints
flushBuffer_Loop(p) ==
    /\ Running
    /\ pc[p] = "drain"
    /\ IF DrainMore(frame[p].i, buffer)
       THEN LET r == RingPop(buffer)
            IN IF r.err # NoErr
               THEN /\ pc' = [pc EXCEPT ![p] = "writePoints"]
                    /\ UNCHANGED <<buffer, frame>>
               ELSE /\ buffer' = r.q
                    /\ frame' = [frame EXCEPT ![p].points[frame[p].i + 1] = r.val,
                                              ![p].i = frame[p].i + 1]
                    /\ UNCHANGED pc
       ELSE /\ pc' = [pc EXCEPT ![p] = "writePoints"]
            /\ UNCHANGED <<buffer, frame>>
    /\ UNCHANGED <<tables, config, flushMutex, sinkLog, inSink, facade, nextId, exitCode, concurrent, lockOrder>>

\* writePoints: the call w.client.WritePoints(ctx, points) is entered
writePoints_Call(p) ==
    /\ Running
    /\ pc[p] = "writePoints"
    /\ sinkLog' = Append(sinkLog, [batch |-> frame[p].points, by |-> p, result |-> "pending"])
    /\ inSink' = inSink \cup {p}
    /\ frame' = [frame EXCEPT ![p].sinkCalls = frame[p].sinkCalls + 1,
                              ![p].sinkIdx = Len(sinkLog) + 1]
    /\ pc' = [pc EXCEPT ![p] = "inSink"]
    /\ UNCHANGED <<tables, config, buffer, flushMutex, facade, nextId, exitCode, concurrent, lockOrder>>

\* what writeBuffered does with flushBuffer's result: return an error, else push
AfterFlush_PushAnyway(err) == "push"

AfterFlush_ReturnLocked(err) == IF err # NoErr THEN "writeRet" ELSE "push"

AfterFlush(err) == IF err # NoErr THEN "unlock" ELSE "push"

\* client.WritePoints returns r; Write returns it (unbuffered), or
\* flushBuffer returns it to writeBuffered
writePoints_Return(p, r) ==
    /\ Running
    /\ pc[p] = "inSink"
    /\ r \in {NoErr, SinkWriteError}
    /\ sinkLog' = [sinkLog EXCEPT ![frame[p].sinkIdx].result = r]
    /\ inSink' = inSink \ {p}
    /\ frame' = [frame EXCEPT ![p].err = r]
    /\ pc' = [pc EXCEPT ![p] = IF Unbuffered THEN "writeRet" ELSE AfterFlush(r)]
    /\ UNCHANGED <<tables, config, buffer, flushMutex, facade, nextId, exitCode, concurrent, lockOrder>>

\* writeBuffered: _, err := w.buffer.Push(point); return err
writeBuffered_Push(p) ==
    /\ Running
    /\ pc[p] = "push"
    /\ LET r == RingPush(buffer, BufferCap, frame[p].point)
       IN /\ buffer' = r.q
          /\ frame' = [frame EXCEPT ![p].err = r.err]
    /\ pc' = [pc EXCEPT ![p] = "unlock"]
    /\ UNCHANGED <<tables, config, flushMutex, sinkLog, inSink, facade, nextId, exitCode, concurrent, lockOrder>>

\* writeBuffered: the deferred w.flushMutex.Unlock(), then Write returns err
writeBuffered_Unlock(p) ==
    /\ Running
    /\ pc[p] = "unlock"
    /\ flushMutex' = 0
    /\ pc' = [pc EXCEPT ![p] = "writeRet"]
    /\ UNCHANGED <<tables, config, buffer, sinkLog, inSink, facade, frame, nextId, exitCode, concurrent, lockOrder>>

\* the steps a goroutine takes inside Write
WriteSteps(p) ==
    \/ writeBuffered_Lock(p)
    \/ writeBuffered_Check(p)
    \/ flushBuffer_Loop(p)
    \/ writePoints_Call(p)
    \/ \E r \in {NoErr, SinkWriteError} : writePoints_Return(p, r)
    \/ writeBuffered_Push(p)
    \/ writeBuffered_Unlock(p)

\* ------------------------------------------------------------------- Logger
\* the Logger NewBufferedLogger returns: the writer, no attached fields
RootLogger == [writer |-> 1, fields |-> NilMap]

NoOp == [op |-> "none", recv |-> 0, arg |-> NilMap, res |-> 0, panicked |-> FALSE]

\* what Log does once Write has returned err: the result is dropped, then
\* fatal exits, panic panics, any other level returns
LogEffect_ErrEscapes(level, err) ==
    IF level = "fatal" THEN "exit"
    ELSE IF level = "panic" \/ err # NoErr THEN "panic"
    ELSE "return"

LogEffect_OnlyAfterSuccess(level, err) ==
    IF level = "fatal" /\ err = NoErr THEN "exit"
    ELSE IF level = "panic" /\ err = NoErr THEN "panic"
    ELSE "return"

LogEffect(level, err) ==
    IF level = "fatal" THEN "exit"
    ELSE IF level = "panic" THEN "panic"
    ELSE "return"

\* the argument of os.Exit
ExitStatus == 1

\* Logger.Log: the call l.writer.Write(level, args, l.fields)
Log(p, l, level, args, timestamp) ==
    /\ l \in 1..Len(loggers)
    /\ nextId <= MaxLogs
    /\ WriteEntry(p, level, args, loggers[l].fields, timestamp, TRUE, l)

\* Logger.Log: the statements after Write has returned
Log_AfterWrite(p) ==
    /\ Running
    /\ pc[p] = "writeRet"
    /\ frame[p].viaLog
    /\ LET e == LogEffect(frame[p].level, frame[p].err)
       IN /\ frame' = [frame EXCEPT ![p].effect = e,
                                    ![p].panicValue = IF e = "panic" THEN Sprint(frame[p].args) ELSE ""]
          /\ pc' = [pc EXCEPT ![p] = CASE e = "exit" -> "exited"
                                       [] e = "panic" -> "panicked"
                                       [] OTHER -> "logRet"]
          /\ exitCode' = IF e = "exit" THEN ExitStatus ELSE exitCode
    /\ UNCHANGED <<tables, config, buffer, flushMutex, sinkLog, inSink, facade, nextId, concurrent, lockOrder>>

\* &Logger{writer: l.writer, fields: fields}
WithFieldsResult_NoWriter(l, fields) == [writer |-> 0, fields |-> fields]

WithFieldsResult(l, fields) == [writer |-> l.writer, fields |-> fields]

\* &Logger{writer: l.writer}: the fields are left nil
LoggerResult(l) == [writer |-> l.writer, fields |-> NilMap]

\* maps.Clone: nil for nil, else a new map with the same entries
mapsClone(m) == IF m.nil THEN NilMap ELSE MkMap([k \in DOMAIN m.m |-> m.m[k]])

\* maps.Copy(dst, src): dst[k] = v for every entry of src; writing an entry
\* into a nil dst panics, copying nothing does not
mapsCopy_KeepDst(dst, src) ==
    IF DOMAIN src.m = {} THEN [panicked |-> FALSE, map |-> dst]
    ELSE IF dst.nil THEN [panicked |-> TRUE, map |-> dst]
    ELSE [panicked |-> FALSE, map |-> MkMap(Overlay(src.m, dst.m))]

mapsCopy(dst, src) ==
    IF DOMAIN src.m = {} THEN [panicked |-> FALSE, map |-> dst]
    ELSE IF dst.nil THEN [panicked |-> TRUE, map |-> dst]
    ELSE [panicked |-> FALSE, map |-> MkMap(Overlay(dst.m, src.m))]

\* Logger.WithFields
WithFields(r, fields) ==
    /\ Running
    /\ r \in 1..Len(loggers)
    /\ Len(loggers) < MaxLoggers
    /\ loggers' = Append(loggers, WithFieldsResult(loggers[r], fields))
    /\ lastOp' = [op |-> "WithFields", recv |-> r, arg |-> fields, res |-> Len(loggers) + 1, panicked |-> FALSE]
    /\ UNCHANGED <<tables, config, buffer, flushMutex, sinkLog, inSink, pc, frame, nextId, exitCode, concurrent, lockOrder>>

\* Logger.WithAdditionalFields
WithAdditionalFields(r, fields) ==
    /\ Running
    /\ r \in 1..Len(loggers)
    /\ Len(loggers) < MaxLoggers
    /\ LET merged == mapsClone(fields)
           c == mapsCopy(merged, loggers[r].fields)
       IN IF c.panicked
          THEN /\ lastOp' = [op |-> "WithAdditionalFields", recv |-> r, arg |-> fields, res |-> 0, panicked |-> TRUE]
               /\ UNCHANGED loggers
          ELSE /\ loggers' = Append(loggers, WithFieldsResult(loggers[r], c.map))
               /\ lastOp' = [op |-> "WithAdditionalFields", recv |-> r, arg |-> fields, res |-> Len(loggers) + 1, panicked |-> FALSE]
    /\ UNCHANGED <<tables, config, buffer, flushMutex, sinkLog, inSink, pc, frame, nextId, exitCode, concurrent, lockOrder>>

\* Logger.Logger
Logger(r) ==
    /\ Running
    /\ r \in 1..Len(loggers)
    /\ Len(loggers) < MaxLoggers
    /\ loggers' = Append(loggers, LoggerResult(loggers[r]))
    /\ lastOp' = [op |-> "Logger", recv |-> r, arg |-> NilMap, res |-> Len(loggers) + 1, panicked |-> FALSE]
    /\ UNCHANGED <<tables, config, buffer, flushMutex, sinkLog, inSink, pc, frame, nextId, exitCode, concurrent, lockOrder>>

\* ---------------------------------------------------------------- the writer
\* the inputs of the Write calls of a run
Times == {[sec |-> 1, nsec |-> 5]}

WriteLevels == {"info"}

WriteArgs == {<<Str("hello")>>}

WriteFields == {NilMap}

\* the writer as NewLogWriter fills it (flushInterval, buffer, fields); tags
\* is indexed at line 69 and allocated nowhere, so it is the nil map.  With
\* interval 0 the buffer is never read, so one capacity stands for all.
InitWith(caps, lgs) ==
    /\ severityMap = severityMapTable
    /\ severityCode = severityCodeTable
    /\ flushInterval \in {0, 1}
    /\ bufferLimit \in caps
    /\ flushInterval = 0 => bufferLimit <= 1
    /\ buffer = <<>>
    /\ flushMutex = 0
    /\ tags = NilMap
    /\ writerFields = MkMap(DefaultFields)
    /\ sinkLog = <<>>
    /\ inSink = {}
    /\ loggers = lgs
    /\ lastOp = NoOp
    /\ pc = [p \in Procs |-> "idle"]
    /\ frame = [p \in Procs |-> IdleFrame]
    /\ nextId = 1
    /\ exitCode = -1
    /\ concurrent = FALSE
    /\ lockOrder = <<>>
    /\ ctor = NoCtor

Init == InitWith(0..MaxCap, <<RootLogger>>)

Next ==
    \E p \in Procs :
        \/ \E lv \in WriteLevels, a \in WriteArgs, f \in WriteFields, t \in Times : Write(p, lv, a, f, t)
        \/ WriteSteps(p)

Spec == Init /\ [][Next]_vars

\* ---------------------------------------------------------- the Log facade
\* the inputs of the Log calls of a run
LogArgs == {<<Str("x"), Num("1"), Num("2")>>}

\* capacities that a run of MaxLogs calls can fill
LogCaps == 0..(MaxLogs - 1)

\* the root Logger, and the Logger WithFields({"a": 1}) derives from it
LogLoggers == <<RootLogger, [writer |-> RootLogger.writer, fields |-> MkMap([a |-> 1])]>>

\* the goroutine that logs
LogProcs == {1}

InitLog == InitWith(LogCaps, LogLoggers)

NextLog ==
    \E p \in LogProcs :
        \/ \E l \in 1..Len(loggers), lv \in Levels, a \in LogArgs, t \in Times : Log(p, l, lv, a, t)
        \/ WriteSteps(p)
        \/ Log_AfterWrite(p)

SpecLog == InitLog /\ [][NextLog]_vars

\* ------------------------------------------------------- deriving Loggers
\* the logging.Fields values handed to WithFields / WithAdditionalFields
FieldKeys == {"a", "b"}

FieldVals == {1, 2}

FieldMaps == {NilMap} \cup {MkMap(f) : f \in UNION {[D -> FieldVals] : D \in SUBSET FieldKeys}}

InitFacade == InitWith({0}, <<RootLogger>>)

NextFacade ==
    \/ \E r \in 1..Len(loggers), f \in FieldMaps : WithFields(r, f)
    \/ \E r \in 1..Len(loggers), f \in FieldMaps : WithAdditionalFields(r, f)
    \/ \E r \in 1..Len(loggers) : Logger(r)

SpecFacade == InitFacade /\ [][NextFacade]_vars

TypeOK ==
    /\ flushMutex \in 0..NumProcs
    /\ inSink \subseteq Procs
    /\ nextId \in 1..(MaxWrites + 1)

\* ---------------------------------------------------------------- encoding
\* the message arguments: a string, two values that are not strings
ArgVals == {Str("a"), Num("1"), Num("2")}

ArgLists == UNION {[1..n -> ArgVals] : n \in 0..MaxArgs}

\* structured fields, some named like the fields getFields computes
EncFieldKeys == {"a", "message", "severity_code", "timestamp"}

EncFieldMaps == {NilMap} \cup {MkMap(f) : f \in UNION {[D -> {1, 2}] : D \in SUBSET EncFieldKeys}}

EncTimes == {[sec |-> 1, nsec |-> 5], [sec |-> 2, nsec |-> 0]}

EncProcs == {1}

InitEncode == InitWith({0}, <<RootLogger>>)

\* one unbuffered Write by a goroutine that has not called yet, to its return
NextEncode ==
    \/ \E p \in {q \in EncProcs : pc[q] = "idle"} :
          \E lv \in Levels, a \in ArgLists, f \in EncFieldMaps, t \in EncTimes :
              Write(p, lv, a, f, t)
    \/ \E p \in EncProcs : writePoints_Call(p)
    \/ \E p \in EncProcs, r \in {NoErr, SinkWriteError} : writePoints_Return(p, r)

SpecEncode == InitEncode /\ [][NextEncode]_vars

\* ------------------------------------------------------------- construction
\* influxdb3.NewFromConnectionString either yields a client or an error
ParseError == "invalid connection string"

ErrInterval == "invalid flush interval"

Parses(connection) == connection = "parseable"

\* if flushInterval < 0
IntervalInvalid_Never(fi) == FALSE

IntervalInvalid(fi) == fi < 0

\* m[k] = v of Go: a write into the nil map panics
mapAssign(m, k, v) ==
    IF m.nil THEN [panicked |-> TRUE, map |-> m]
    ELSE [panicked |-> FALSE,
          map |-> MkMap([x \in (DOMAIN m.m) \cup {k} |-> IF x = k THEN v ELSE m.m[x]])]

\* the tag set NewLogWriter builds for one level
LevelTags(an, hn, keyword) ==
    [appname |-> an, host |-> hn, hostname |-> hn, facility |-> "user", severity |-> keyword]

\* NewBufferedLogger called: it calls NewLogWriter with its arguments
NewBufferedLogger(connection, an, hn, fi, bl) ==
    /\ ctor.pc = "none"
    /\ ctor' = [NoCtor EXCEPT !.pc = "parse", !.connection = connection, !.appName = an,
                              !.host = hn, !.flushInterval = fi, !.bufferLimit = bl]
    /\ UNCHANGED <<tables, flushInterval, bufferLimit, tags, writerFields, buffer, flushMutex,
                   sinkLog, inSink, facade, pc, frame, nextId, exitCode, concurrent, lockOrder>>

\* client, err := NewFromConnectionString(connection); if err != nil return
NewLogWriter_Parse ==
    /\ ctor.pc = "parse"
    /\ ctor' = IF Parses(ctor.connection)
                 THEN [ctor EXCEPT !.pc = "interval"]
                 ELSE [ctor EXCEPT !.pc = "return", !.err = ParseError]
    /\ UNCHANGED <<tables, flushInterval, bufferLimit, tags, writerFields, buffer, flushMutex,
                   sinkLog, inSink, facade, pc, frame, nextId, exitCode, concurrent, lockOrder>>

\* the interval check, then writer := &LogWriter{client, flushInterval}
NewLogWriter_Interval ==
    /\ ctor.pc = "interval"
    /\ IF IntervalInvalid(ctor.flushInterval)
         THEN /\ ctor' = [ctor EXCEPT !.pc = "return", !.err = ErrInterval]
              /\ UNCHANGED flushInterval
         ELSE /\ ctor' = [ctor EXCEPT !.pc = "buffer", !.writer = TRUE]
              /\ flushInterval' = ctor.flushInterval
    /\ UNCHANGED <<tables, bufferLimit, tags, writerFields, buffer, flushMutex,
                   sinkLog, inSink, facade, pc, frame, nextId, exitCode, concurrent, lockOrder>>

\* if bufferLimit > 0 { writer.buffer = ringqueue.NewUnsafe(bufferLimit, ...) }
NewLogWriter_Buffer ==
    /\ ctor.pc = "buffer"
    /\ IF ctor.bufferLimit > 0
         THEN /\ bufferLimit' = ctor.bufferLimit
              /\ buffer' = <<>>
              /\ ctor' = [ctor EXCEPT !.pc = "tags", !.ring = TRUE]
         ELSE /\ ctor' = [ctor EXCEPT !.pc = "tags"]
              /\ UNCHANGED <<bufferLimit, buffer>>
    /\ UNCHANGED <<tables, flushInterval, tags, writerFields, flushMutex,
                   sinkLog, inSink, facade, pc, frame, nextId, exitCode, concurrent, lockOrder>>

\* the loop writer.tags[level] = {...} over severityMap, then writer.fields =
\* {...}; the first store decides whether the loop panics
NewLogWriter_Tags ==
    /\ ctor.pc = "tags"
    /\ LET first == CHOOSE l \in DOMAIN severityMap : TRUE
           r == mapAssign(tags, first, LevelTags(ctor.appName, ctor.host, severityMap[first]))
       IN IF r.panicked
            THEN /\ ctor' = [ctor EXCEPT !.pc = "panicked", !.result = "panic"]
                 /\ UNCHANGED <<tags, writerFields>>
            ELSE /\ tags' = MkMap([l \in DOMAIN severityMap |->
                                      LevelTags(ctor.appName, ctor.host, severityMap[l])])
                 /\ writerFields' = MkMap(DefaultFields)
                 /\ ctor' = [ctor EXCEPT !.pc = "return"]
    /\ UNCHANGED <<tables, flushInterval, bufferLimit, buffer, flushMutex,
                   sinkLog, inSink, facade, pc, frame, nextId, exitCode, concurrent, lockOrder>>

\* NewLogWriter returns; NewBufferedLogger returns (nil, err) or the Logger
NewBufferedLogger_Return ==
    /\ ctor.pc = "return"
    /\ IF ctor.err # NoErr
         THEN /\ ctor' = [ctor EXCEPT !.pc = "done", !.result = "error"]
              /\ UNCHANGED loggers
         ELSE /\ ctor' = [ctor EXCEPT !.pc = "done", !.result = "logger"]
              /\ loggers' = <<RootLogger>>
    /\ UNCHANGED <<tables, flushInterval, bufferLimit, tags, writerFields, buffer, flushMutex,
                   sinkLog, inSink, lastOp, pc, frame, nextId, exitCode, concurrent, lockOrder>>

Connections == {"parseable", "unparseable"}

AppNames == {appName, "svc"}

Hosts == {host, "h2"}

Intervals == {-1, 0, 1}

Capacities == (-1)..MaxCap

\* nothing is constructed yet: the zero LogWriter, no Logger
InitNew ==
    /\ severityMap = severityMapTable
    /\ severityCode = severityCodeTable
    /\ flushInterval = 0
    /\ bufferLimit = 0
    /\ buffer = <<>>
    /\ flushMutex = 0
    /\ tags = NilMap
    /\ writerFields = NilMap
    /\ sinkLog = <<>>
    /\ inSink = {}
    /\ loggers = <<>>
    /\ lastOp = NoOp
    /\ pc = [p \in Procs |-> "idle"]
    /\ frame = [p \in Procs |-> IdleFrame]
    /\ nextId = 1
    /\ exitCode = -1
    /\ concurrent = FALSE
    /\ lockOrder = <<>>
    /\ ctor = NoCtor

NextNew ==
    \/ \E c \in Connections, an \in AppNames, hn \in Hosts, fi \in Intervals, bl \in Capacities :
          NewBufferedLogger(c, an, hn, fi, bl)
    \/ NewLogWriter_Parse
    \/ NewLogWriter_Interval
    \/ NewLogWriter_Buffer
    \/ NewLogWriter_Tags
    \/ NewBufferedLogger_Return

SpecNew == InitNew /\ [][NextNew]_vars

\* ------------------------------------------------------------ fair execution
\* two goroutines on a buffering writer of capacity 1 or 2
FairProcs == {1, 2}

FairCaps == {1, 2}

InitFair == InitWith(FairCaps, <<RootLogger>>) /\ flushInterval = 1

NextFair ==
    \E p \in FairProcs :
        \/ \E lv \in WriteLevels, a \in WriteArgs, f \in WriteFields, t \in Times : Write(p, lv, a, f, t)
        \/ WriteSteps(p)

\* a goroutine inside Write keeps running; the sink call returns; Lock is
\* granted to a waiter that finds the mutex free again and again
Fairness ==
    \A p \in FairProcs :
        /\ SF_vars(writeBuffered_Lock(p))
        /\ WF_vars(writeBuffered_Check(p))
        /\ WF_vars(flushBuffer_Loop(p))
        /\ WF_vars(writePoints_Call(p))
        /\ WF_vars(\E r \in {NoErr, SinkWriteError} : writePoints_Return(p, r))
        /\ WF_vars(writeBuffered_Push(p))
        /\ WF_vars(writeBuffered_Unlock(p))

SpecFair == InitFair /\ [][NextFair]_vars /\ Fairness

\* ------------------------------------------------------------------- claims
\* the configuration in which Write buffers: interval > 0 and capacity >= 1
BufferingEnabled == flushInterval > 0 /\ bufferLimit >= 1

BufferingDisabled == flushInterval = 0 \/ bufferLimit = 0

NoCallInFlight == \A p \in Procs : ~InFlight(p)

\* the sink has accepted every batch so far
NoSinkFailure == \A k \in 1..Len(sinkLog) : sinkLog[k].result # SinkWriteError

BatchIds(b) == [k \in 1..Len(b) |-> b[k].id]

\* C1: with buffering enabled and a sink that always succeeds, after K+1
\* sequential Write calls on a fresh writer the sink has been called exactly
\* once, with the first K points in the order written, and the buffer holds
\* exactly the (K+1)-th point.
C1_OneDrainOfFirstK ==
    (BufferingEnabled /\ NoSinkFailure /\ ~concurrent /\ NoCallInFlight /\ nextId = bufferLimit + 2)
        => /\ Len(sinkLog) = 1
           /\ BatchIds(sinkLog[1].batch) = [k \in 1..bufferLimit |-> k]
           /\ BatchIds(buffer) = <<bufferLimit + 1>>

\* C2: with buffering enabled at most one goroutine is inside the sink, and
\* every sink call but the last entered has already returned.
C2_DrainWritesNeverOverlap ==
    BufferingEnabled =>
        /\ Cardinality(inSink) <= 1
        /\ \A k \in 1..(Len(sinkLog) - 1) : sinkLog[k].result # "pending"

C2_Witness ==
    /\ BufferingEnabled
    /\ Len(sinkLog) >= 2
    /\ \E p \in inSink, q \in Procs : q # p /\ pc[q] = "lock" /\ sinkLog[1].by = q

\* C3: with buffering disabled every Write makes exactly one sink call, its
\* batch is the one point the call encoded, the buffer and the mutex are never
\* touched, and Write returns the result of that sink call.
C3_UnbufferedWriteIsOneSinkCall ==
    BufferingDisabled =>
        /\ buffer = <<>>
        /\ flushMutex = 0
        /\ Len(sinkLog) + Cardinality({p \in Procs : pc[p] = "writePoints"}) = nextId - 1
        /\ \A k \in 1..Len(sinkLog) : Len(sinkLog[k].batch) = 1 /\ sinkLog[k].batch[1] # NilPoint
        /\ \A j, k \in 1..Len(sinkLog) : j # k => sinkLog[j].batch[1].id # sinkLog[k].batch[1].id
        /\ \A p \in Procs : pc[p] = "writeRet" =>
              /\ frame[p].sinkCalls = 1
              /\ frame[p].point # NilPoint
              /\ sinkLog[frame[p].sinkIdx].batch = <<frame[p].point>>
              /\ sinkLog[frame[p].sinkIdx].by = p
              /\ frame[p].err = sinkLog[frame[p].sinkIdx].result

C3_Witness ==
    /\ flushInterval = 0
    /\ bufferLimit > 0
    /\ \E p \in Procs : pc[p] = "writeRet" /\ frame[p].err = SinkWriteError
    /\ \E k \in 1..Len(sinkLog) : sinkLog[k].result = NoErr

\* C4: the buffer never holds more points than the capacity fixed at
\* construction.
C4_LenAtMostCapacity == Len(buffer) <= bufferLimit

C4_Witness ==
    /\ bufferLimit >= 2
    /\ Len(buffer) = bufferLimit
    /\ concurrent
    /\ \E k \in 1..Len(sinkLog) : sinkLog[k].result = SinkWriteError

\* C5: with buffering enabled a Write calls the sink exactly when it found
\* the buffer at capacity on taking the lock; a Write that found room calls
\* no sink and leaves the buffer one longer; and the sink log grows only by
\* the writePoints step of a goroutine inside Write.
C5_State ==
    BufferingEnabled =>
        \A p \in Procs :
            /\ pc[p] \in {"unlock", "writeRet"} =>
                  frame[p].sinkCalls = (IF frame[p].lenAtLock = bufferLimit THEN 1 ELSE 0)
            /\ (pc[p] = "unlock" /\ frame[p].lenAtLock < bufferLimit) =>
                  Len(buffer) = frame[p].lenAtLock + 1

C5_Step ==
    Len(sinkLog') # Len(sinkLog) =>
        \E p \in Procs :
            /\ pc[p] = "writePoints" /\ pc'[p] = "inSink"
            /\ Len(sinkLog') = Len(sinkLog) + 1
            /\ BufferingEnabled => frame[p].lenAtLock = bufferLimit

C5_FlushOnlyWhenFull == []C5_State /\ [][C5_Step]_vars

C5_Witness ==
    /\ BufferingEnabled
    /\ \E p, q \in Procs :
          /\ pc[p] = "writeRet" /\ frame[p].sinkCalls = 1 /\ frame[p].err = NoErr
          /\ pc[q] = "unlock" /\ frame[q].sinkCalls = 0

\* C6: a Log at a level other than fatal and panic returns to its caller
\* whatever Write returned: it never ends in a panic or a process exit, and
\* its step after Write is a plain return.
C6_State ==
    \A p \in Procs :
        (frame[p].viaLog /\ frame[p].level \notin {"fatal", "panic"}) =>
            /\ pc[p] \notin {"exited", "panicked"}
            /\ frame[p].effect \in {"none", "return"}
            /\ frame[p].panicValue = ""

C6_Step ==
    \A p \in Procs :
        (pc[p] = "writeRet" /\ frame[p].viaLog /\ frame[p].level \notin {"fatal", "panic"} /\ pc'[p] # pc[p]) =>
            /\ pc'[p] = "logRet"
            /\ exitCode' = -1

C6_LogSwallowsWriteError == []C6_State /\ [][C6_Step]_vars

C6_Witness ==
    /\ BufferingEnabled
    /\ \E p \in Procs :
          /\ pc[p] = "logRet"
          /\ frame[p].level = "error"
          /\ frame[p].err = SinkWriteError

\* the Write attempt of the call p is in has completed
WriteAttemptDone(p) ==
    /\ p \notin inSink
    /\ flushMutex # p
    /\ IF BufferingDisabled
       THEN frame[p].sinkCalls = 1 /\ sinkLog[frame[p].sinkIdx].result = frame[p].err
       ELSE \/ frame[p].err # NoErr
            \/ \E k \in 1..Len(buffer) : buffer[k] = frame[p].point

\* C7: a fatal Log ends in os.Exit(1) and a panic Log in a panic carrying the
\* rendered message, never in a return; the effect is the step that follows
\* the return of Write, whatever Write returned.
C7_State ==
    /\ exitCode \in {-1, 1}
    /\ exitCode = 1 => \E p \in Procs : pc[p] = "exited"
    /\ \A p \in Procs :
          /\ pc[p] = "logRet" => frame[p].level \notin {"fatal", "panic"}
          /\ pc[p] = "exited" => (frame[p].level = "fatal" /\ exitCode = 1 /\ WriteAttemptDone(p))
          /\ pc[p] = "panicked" =>
                /\ frame[p].level = "panic"
                /\ frame[p].panicValue = frame[p].point.fields.message
                /\ WriteAttemptDone(p)

C7_Step ==
    \A p \in Procs :
        /\ (pc[p] = "writeRet" /\ frame[p].viaLog /\ pc'[p] # pc[p]) =>
              /\ frame[p].level = "fatal" => (pc'[p] = "exited" /\ exitCode' = 1)
              /\ frame[p].level = "panic" => pc'[p] = "panicked"
        /\ (pc'[p] # pc[p] /\ pc'[p] \in {"exited", "panicked"}) => pc[p] = "writeRet"

C7_FatalExitsPanicUnwinds == []C7_State /\ [][C7_Step]_vars

C7_Witness ==
    /\ exitCode = 1
    /\ \E p \in Procs :
          /\ pc[p] = "exited"
          /\ frame[p].err = SinkWriteError
          /\ frame[p].sinkCalls = 1

\* C8: WithAdditionalFields(f) on a Logger carrying g returns a Logger whose
\* attached fields have the keys of f and g together, each key with g's value
\* when g has it and f's value otherwise; with an argument that is a map the
\* call always returns.
C8_ExistingFieldsWin ==
    lastOp.op = "WithAdditionalFields" =>
        /\ ~lastOp.arg.nil => ~lastOp.panicked
        /\ ~lastOp.panicked =>
              LET f == lastOp.arg.m
                  g == loggers[lastOp.recv].fields.m
                  res == loggers[lastOp.res].fields.m
              IN /\ DOMAIN res = (DOMAIN f) \cup (DOMAIN g)
                 /\ \A k \in DOMAIN res : res[k] = IF k \in DOMAIN g THEN g[k] ELSE f[k]

C8_Witness ==
    /\ lastOp.op = "WithAdditionalFields"
    /\ ~lastOp.panicked
    /\ lastOp.arg = MkMap([a |-> 1])
    /\ loggers[lastOp.recv].fields = MkMap([a |-> 2])
    /\ loggers[lastOp.res].fields = MkMap([a |-> 2])

\* C9: WithFields, WithAdditionalFields and Logger() return a new Logger on
\* the receiver's writer; WithFields(f) carries exactly f, Logger() carries
\* no fields; no existing Logger is changed by any of them.
C9_State ==
    /\ \A k \in 1..Len(loggers) : loggers[k].writer = RootLogger.writer
    /\ (lastOp.op # "none" /\ ~lastOp.panicked) =>
          /\ lastOp.res = Len(loggers)
          /\ lastOp.res # lastOp.recv
          /\ loggers[lastOp.res].writer = loggers[lastOp.recv].writer
          /\ lastOp.op = "WithFields" => loggers[lastOp.res].fields = lastOp.arg
          /\ lastOp.op = "Logger" => DOMAIN loggers[lastOp.res].fields.m = {}

C9_Step ==
    /\ Len(loggers') >= Len(loggers)
    /\ \A k \in 1..Len(loggers) : loggers'[k] = loggers[k]

C9_DerivedLoggersShareWriter == []C9_State /\ [][C9_Step]_vars

C9_Witness ==
    /\ Len(loggers) = 3
    /\ lastOp.op = "Logger"
    /\ lastOp.recv = 2
    /\ loggers[2].fields = MkMap([a |-> 1, b |-> 2])
    /\ loggers[3].fields = NilMap

\* C10: the severity tables hold trace -> ("debug", 7), debug -> ("debug", 7),
\* info -> ("info", 6), warn -> ("warn", 4), error -> ("err", 3),
\* fatal -> ("alert", 1), panic -> ("emerg", 0) in every state; every code is
\* in 0..7, a more severe level never has the larger code, and every point
\* encoded carries the code of its level.
C10_Expected ==
    [trace |-> <<"debug", 7>>, debug |-> <<"debug", 7>>, info |-> <<"info", 6>>, warn |-> <<"warn", 4>>,
     error |-> <<"err", 3>>, fatal |-> <<"alert", 1>>, panic |-> <<"emerg", 0>>]

C10_SeverityTables ==
    /\ DOMAIN severityMap = Levels
    /\ DOMAIN severityCode = Levels
    /\ \A l \in Levels :
          /\ severityMap[l] = C10_Expected[l][1]
          /\ severityCode[l] = C10_Expected[l][2]
          /\ severityCode[l] \in 0..7
    /\ \A l1, l2 \in Levels : LevelRank[l1] > LevelRank[l2] => severityCode[l1] <= severityCode[l2]
    /\ \A p \in Procs : frame[p].point # NilPoint =>
          frame[p].point.fields.severity_code = C10_Expected[frame[p].level][2]

C10_Witness ==
    /\ \E k \in 1..Len(sinkLog) : sinkLog[k].batch[1].fields.severity_code = 7
    /\ \E p \in Procs : frame[p].level = "panic" /\ frame[p].point.fields.severity_code = 0 /\ pc[p] = "panicked"

\* the representations of the arguments one after the other, nothing between
RECURSIVE C11_Concat(_, _)
C11_Concat(args, n) ==
    IF n = 0 THEN "" ELSE C11_Concat(args, n - 1) \o args[n].s

\* the same with one space before an argument when neither it nor the
\* argument before it is a string
RECURSIVE C11_Spaced(_, _)
C11_Spaced(args, n) ==
    IF n = 0 THEN ""
    ELSE C11_Spaced(args, n - 1)
            \o (IF n > 1 /\ ~args[n - 1].str /\ ~args[n].str THEN " " ELSE "")
            \o args[n].s

\* C11 as claimed: the message of every encoded point is the space-free
\* concatenation of the representations of its arguments.
C11_NoSeparatorEver ==
    \A p \in Procs : frame[p].point # NilPoint =>
        frame[p].point.fields.message = C11_Concat(frame[p].args, Len(frame[p].args))

\* C11 as amended: the message of every encoded point is the representations
\* of its arguments in order, with one space between two successive
\* arguments exactly when neither of the two is a string.
C11_SpaceOnlyBetweenNonStrings ==
    \A p \in Procs : frame[p].point # NilPoint =>
        frame[p].point.fields.message = C11_Spaced(frame[p].args, Len(frame[p].args))

C11_Witness ==
    \E p \in Procs :
        /\ pc[p] = "writeRet"
        /\ frame[p].args = <<Str("a"), Num("1"), Num("2")>>
        /\ frame[p].point # NilPoint
        /\ frame[p].point.fields.message = "a1 2"

\* C12: the field set of every encoded point has exactly the six fixed keys
\* and one key "fields."+k per structured field k, which carries that
\* field's value; severity_code is the code of the level, message and
\* timestamp are the values computed for the call, and the three constant
\* fields keep their values.
C12_FixedKeys == {"facility_code", "procid", "version", "severity_code", "timestamp", "message"}

C12_FieldSetShape ==
    \A p \in Procs : frame[p].point # NilPoint =>
        LET m == frame[p].point.fields
            F == frame[p].fields.m
        IN /\ DOMAIN m = C12_FixedKeys \cup {"fields." \o k : k \in DOMAIN F}
           /\ \A k \in DOMAIN F : m["fields." \o k] = F[k]
           /\ m["severity_code"] = C10_Expected[frame[p].level][2]
           /\ m["message"] = C11_Spaced(frame[p].args, Len(frame[p].args))
           /\ m["timestamp"] = <<"RFC3339", frame[p].point.ts.sec>>
           /\ m["facility_code"] = 1 /\ m["version"] = 1 /\ m["procid"] = procId

C12_Witness ==
    \E p \in Procs :
        /\ pc[p] = "writeRet"
        /\ frame[p].level = "error"
        /\ frame[p].fields = MkMap([message |-> 1, timestamp |-> 2, severity_code |-> 2])
        /\ frame[p].point # NilPoint
        /\ frame[p].point.fields["fields.message"] = 1
        /\ frame[p].point.fields["message"] = "1 2"
        /\ frame[p].point.fields["severity_code"] = 3

\* C13: a construction with a negative flush interval or a connection
\* string that does not parse ends with an error and no writer or Logger,
\* whatever the capacity; at no point of it is a ring buffer created or the
\* sink called.
C13_BadInput == ctor.pc # "none" /\ (ctor.flushInterval < 0 \/ ctor.connection # "parseable")

C13_InvalidConstructionFails ==
    C13_BadInput =>
        /\ ~ctor.writer /\ ~ctor.ring /\ bufferLimit = 0
        /\ sinkLog = <<>> /\ loggers = <<>>
        /\ ctor.pc # "panicked"
        /\ ctor.pc = "done" => ctor.result = "error" /\ ctor.err # NoErr

C13_Witness ==
    /\ ctor.pc = "done"
    /\ ctor.connection = "parseable" /\ ctor.flushInterval = -1 /\ ctor.bufferLimit = 2
    /\ ctor.result = "error" /\ ctor.err = ErrInterval

\* C14: a construction with a connection string that parses, an interval
\* of at least 0 and a capacity of at least 0 ends without error or crash,
\* and the tags table then has an entry for each of the seven levels with
\* appname, host and hostname from the arguments, facility "user" and the
\* level's keyword as severity.
C14_ValidConstructionSucceeds ==
    (/\ ctor.pc \in {"done", "panicked"}
     /\ ctor.connection = "parseable" /\ ctor.flushInterval >= 0 /\ ctor.bufferLimit >= 0)
    => /\ ctor.result = "logger"
       /\ ~tags.nil
       /\ DOMAIN tags.m = Levels
       /\ \A l \in Levels :
            tags.m[l] = [appname |-> ctor.appName, host |-> ctor.host, hostname |-> ctor.host,
                         facility |-> "user", severity |-> C10_Expected[l][1]]

\* goroutine p is in a buffered Write whose drain batch the sink rejected
C15_DrainFailed(p) ==
    /\ BufferingEnabled
    /\ frame[p].sinkIdx \in 1..Len(sinkLog)
    /\ sinkLog[frame[p].sinkIdx].result = SinkWriteError

C15_InBuffer(pt) == \E k \in 1..Len(buffer) : buffer[k] = pt

C15_InBatch(pt, k) == \E j \in 1..Len(sinkLog[k].batch) : sinkLog[k].batch[j] = pt

\* C15: when the sink rejects the drain batch of a buffered Write, the Write
\* goes on to return that error without pushing its point, the buffer stays
\* as the drain left it, and the points of the rejected batch are neither
\* back in the buffer nor in a batch of any other sink call.
C15_FailedDrainDropsBatch ==
    /\ \A p \in Procs : C15_DrainFailed(p) =>
          /\ pc[p] \in {"unlock", "writeRet"}
          /\ frame[p].err = SinkWriteError
          /\ ~C15_InBuffer(frame[p].point)
          /\ \A k \in 1..Len(sinkLog) : ~C15_InBatch(frame[p].point, k)
          /\ pc[p] = "unlock" => Len(buffer) = frame[p].lenAtLock - frame[p].i
    /\ BufferingEnabled =>
          \A k \in 1..Len(sinkLog) : sinkLog[k].result = SinkWriteError =>
              \A j \in 1..Len(sinkLog[k].batch) :
                  LET pt == sinkLog[k].batch[j]
                  IN pt # NilPoint =>
                        /\ ~C15_InBuffer(pt)
                        /\ \A k2 \in (1..Len(sinkLog)) \ {k} : ~C15_InBatch(pt, k2)

C15_Witness ==
    /\ BufferingEnabled
    /\ Len(sinkLog) >= 2
    /\ sinkLog[1].result = SinkWriteError
    /\ sinkLog[2].result = NoErr
    /\ \E p \in Procs : pc[p] = "writeRet" /\ frame[p].err = SinkWriteError /\ frame[p].wasFull

\* C16: every batch a buffered drain hands to the sink is non-empty, has no
\* empty (nil) slot, holds only points that were pending in the buffer, and
\* is as long as the number of points the drain removed from the buffer.
C16_BatchesAreThePoppedPoints ==
    BufferingEnabled =>
        /\ \A k \in 1..Len(sinkLog) :
              /\ Len(sinkLog[k].batch) >= 1
              /\ \A j \in 1..Len(sinkLog[k].batch) :
                    /\ sinkLog[k].batch[j] # NilPoint
                    /\ sinkLog[k].batch[j].id \in 1..(nextId - 1)
        /\ \A p \in Procs : pc[p] = "inSink" =>
              Len(sinkLog[frame[p].sinkIdx].batch) = frame[p].i

C17_Points(b) == BatchIds(SelectSeq(b, LAMBDA x : x # NilPoint))

\* the points handed to the sink so far, batch after batch
RECURSIVE C17_Delivered(_)
C17_Delivered(n) ==
    IF n = 0 THEN <<>> ELSE C17_Delivered(n - 1) \o C17_Points(sinkLog[n].batch)

\* the points a drain has popped into the batch it has not yet handed over
C17_Assembling ==
    IF \E p \in Procs : pc[p] \in {"drain", "writePoints"}
    THEN C17_Points(frame[CHOOSE p \in Procs : pc[p] \in {"drain", "writePoints"}].points)
    ELSE <<>>

\* the points of the calls that took the lock, in that order, without the
\* point of a call that holds the lock and has not pushed yet
C17_Accepted ==
    SelectSeq(lockOrder, LAMBDA id :
        ~\E p \in Procs : /\ pc[p] \in {"check", "drain", "writePoints", "inSink", "push"}
                          /\ frame[p].point.id = id)

C17_Places == C17_Delivered(Len(sinkLog)) \o C17_Assembling \o BatchIds(buffer)

\* C17: with buffering enabled and a sink that has accepted every batch,
\* the points delivered to the sink batch after batch (the batch a drain is
\* assembling counted as delivered), followed by the pending points of the
\* buffer, are exactly the points of the accepted calls in the order in
\* which the calls took the flush lock: each once, none missing, and every
\* buffered Write that has returned returned nil with its point among them.
C17_EveryPointOnceInLockOrder ==
    (BufferingEnabled /\ NoSinkFailure) =>
        /\ C17_Places = C17_Accepted
        /\ \A p \in Procs : pc[p] = "writeRet" =>
              /\ frame[p].err = NoErr
              /\ Cardinality({k \in 1..Len(C17_Places) : C17_Places[k] = frame[p].point.id}) = 1

C17_Witness ==
    /\ BufferingEnabled /\ NoSinkFailure /\ concurrent /\ NoCallInFlight
    /\ Len(lockOrder) >= 3
    /\ lockOrder[1] = 2
    /\ Len(sinkLog) >= 1
    /\ sinkLog[1].result = NoErr
    /\ Len(buffer) >= 1

\* C18: a buffered Write never ends with the ring queue's full or empty
\* error: its result is nil or a sink error, and the push after a drain the
\* sink accepted finds the buffer shorter than its capacity.
C18_NoQueueErrorSurfaces ==
    BufferingEnabled =>
        \A p \in Procs :
            /\ frame[p].err \in {NoErr, SinkWriteError}
            /\ pc[p] = "push" => Len(buffer) < bufferLimit

C18_Witness ==
    \E p \in Procs :
        /\ BufferingEnabled /\ bufferLimit = 3
        /\ pc[p] = "push" /\ frame[p].wasFull /\ frame[p].sinkCalls = 1
        /\ frame[p].err = NoErr
        /\ Len(buffer) = 1

C19_InWrite(p) == pc[p] \in {"lock", "check", "drain", "writePoints", "inSink", "push", "unlock"}

C19_HoldsLock(p) == pc[p] \in {"check", "drain", "writePoints", "inSink", "push", "unlock"}

\* C19: when every sink call returns and the lock is granted fairly, the
\* flush lock is held only by a goroutine that is between Lock and Unlock
\* of its Write (so it is free whenever no Write is in progress), and every
\* buffered Write that has started returns.
C19_EveryWriteReturnsLockFreed ==
    /\ [](flushMutex # 0 => C19_HoldsLock(flushMutex))
    /\ []((\A p \in Procs : ~C19_InWrite(p)) => flushMutex = 0)
    /\ \A p \in FairProcs : C19_InWrite(p) ~> (pc[p] = "writeRet")

C19_Witness ==
    \E p, q \in FairProcs :
        /\ pc[p] = "unlock" /\ frame[p].err = SinkWriteError /\ flushMutex = p
        /\ pc[q] = "lock"

\* C20: WithAdditionalFields returns a Logger without crashing for every
\* argument and receiver; with a nil argument on a Logger that carries
\* fields the result carries exactly the receiver's fields.
C20_WithAdditionalFieldsIsTotal ==
    lastOp.op = "WithAdditionalFields" =>
        /\ ~lastOp.panicked
        /\ lastOp.res \in 1..Len(loggers)
        /\ (lastOp.arg.nil /\ DOMAIN loggers[lastOp.recv].fields.m # {}) =>
              loggers[lastOp.res].fields.m = loggers[lastOp.recv].fields.m

====
